---- MODULE Spec2Model ----
(***************************************************************************)
(* A model of pyequake.QuakeQuery: the WADL parameter parser run by the    *)
(* constructor, the date normaliser installed by the convert_to_utc_str    *)
(* decorator, the three chainable builder methods and get().               *)
(***************************************************************************)
EXTENDS Integers, Sequences, FiniteSets, TLC

VARIABLES doc, phase, _params, ctorError, query, last, occurEnd,
          value, normOut, normAgain

vars == <<doc, phase, _params, ctorError, query, last, occurEnd,
          value, normOut, normAgain>>

-----------------------------------------------------------------------------
(* Python values.  A str whose characters the code inspects (a date) is a  *)
(* sequence of one-character strings; a str that is only compared or       *)
(* stored is a Text.                                                       *)

None == [type |-> "NoneType"]

Str(cs) == [type |-> "str", chars |-> cs]

Text(s) == [type |-> "str", text |-> s]

PyInt(n) == [type |-> "int", int |-> n]

Datetime(Y, M, D, h, m, s) ==
    [type |-> "datetime", year |-> Y, month |-> M, day |-> D,
     hour |-> h, minute |-> m, second |-> s]

Returned(v) == [ok |-> TRUE, val |-> v]

Raised(e) == [ok |-> FALSE, exc |-> e]

-----------------------------------------------------------------------------
(* datetime.strftime / datetime.strptime for "%Y-%m-%dT%H:%M:%S".          *)

DigitChars == <<"0", "1", "2", "3", "4", "5", "6", "7", "8", "9">>

DigitOf == [c \in {DigitChars[i] : i \in 1..10} |->
               (CHOOSE i \in 1..10 : DigitChars[i] = c) - 1]

IsDigit(c) == c \in DOMAIN DigitOf

DigitVal(c) == DigitOf[c]

At(cs, p) == IF p >= 1 /\ p <= Len(cs) THEN cs[p] ELSE "$"

InRange(c, lo, hi) == IsDigit(c) /\ DigitVal(c) >= lo /\ DigitVal(c) <= hi

Pad2(n) == <<DigitChars[(n \div 10) + 1], DigitChars[(n % 10) + 1]>>

Pad4(n) == Pad2(n \div 100) \o Pad2(n % 100)

Strftime(d) ==
    Pad4(d.year) \o <<"-">> \o Pad2(d.month) \o <<"-">> \o Pad2(d.day)
      \o <<"T">> \o Pad2(d.hour) \o <<":">> \o Pad2(d.minute)
      \o <<":">> \o Pad2(d.second)

\* Number of characters each directive's regular expression consumes at
\* position p, trying its alternatives in order; 0 when none matches.
MatchY(cs, p) ==
    IF \A k \in 0..3 : IsDigit(At(cs, p + k)) THEN 4 ELSE 0

MatchMonth(cs, p) ==
    IF At(cs, p) = "1" /\ InRange(At(cs, p + 1), 0, 2) THEN 2
    ELSE IF At(cs, p) = "0" /\ InRange(At(cs, p + 1), 1, 9) THEN 2
    ELSE IF InRange(At(cs, p), 1, 9) THEN 1
    ELSE 0

MatchDay(cs, p) ==
    IF At(cs, p) = "3" /\ InRange(At(cs, p + 1), 0, 1) THEN 2
    ELSE IF InRange(At(cs, p), 1, 2) /\ IsDigit(At(cs, p + 1)) THEN 2
    ELSE IF At(cs, p) = "0" /\ InRange(At(cs, p + 1), 1, 9) THEN 2
    ELSE IF InRange(At(cs, p), 1, 9) THEN 1
    ELSE IF At(cs, p) = " " /\ InRange(At(cs, p + 1), 1, 9) THEN 2
    ELSE 0

MatchHour(cs, p) ==
    IF At(cs, p) = "2" /\ InRange(At(cs, p + 1), 0, 3) THEN 2
    ELSE IF InRange(At(cs, p), 0, 1) /\ IsDigit(At(cs, p + 1)) THEN 2
    ELSE IF IsDigit(At(cs, p)) THEN 1
    ELSE 0

MatchMinute(cs, p) ==
    IF InRange(At(cs, p), 0, 5) /\ IsDigit(At(cs, p + 1)) THEN 2
    ELSE IF IsDigit(At(cs, p)) THEN 1
    ELSE 0

MatchSecond(cs, p) ==
    IF At(cs, p) = "6" /\ InRange(At(cs, p + 1), 0, 1) THEN 2
    ELSE IF InRange(At(cs, p), 0, 5) /\ IsDigit(At(cs, p + 1)) THEN 2
    ELSE IF IsDigit(At(cs, p)) THEN 1
    ELSE 0

RECURSIVE ToInt(_, _, _)
\* int() of the n characters at p; a leading blank is stripped.
ToInt(cs, p, n) ==
    IF n = 0 THEN 0
    ELSE IF At(cs, p) = " " THEN ToInt(cs, p + 1, n - 1)
    ELSE LET c == At(cs, p + n - 1)
         IN  ToInt(cs, p, n - 1) * 10 + DigitVal(c)

IsLeap(y) == (y % 4 = 0) /\ ((y % 100 # 0) \/ (y % 400 = 0))

DaysInMonth(y, m) ==
    IF m = 2 THEN (IF IsLeap(y) THEN 29 ELSE 28)
    ELSE IF m \in {4, 6, 9, 11} THEN 30
    ELSE 31

\* TRUE iff dt.strptime(cs, "%Y-%m-%dT%H:%M:%S") returns a datetime; it
\* raises ValueError otherwise (no match, unconverted data, or a field the
\* datetime constructor rejects).
Strptime(cs) ==
    LET nY  == MatchY(cs, 1)
        pm  == 1 + nY + 1
        nm  == MatchMonth(cs, pm)
        pd  == pm + nm + 1
        nd  == MatchDay(cs, pd)
        pH  == pd + nd + 1
        nH  == MatchHour(cs, pH)
        pM  == pH + nH + 1
        nM  == MatchMinute(cs, pM)
        pS  == pM + nM + 1
        nS  == MatchSecond(cs, pS)
        yr  == ToInt(cs, 1, nY)
        mo  == ToInt(cs, pm, nm)
        dy  == ToInt(cs, pd, nd)
        sec == ToInt(cs, pS, nS)
    IN  /\ nY > 0 /\ At(cs, pm - 1) = "-"
        /\ nm > 0 /\ At(cs, pd - 1) = "-"
        /\ nd > 0 /\ At(cs, pH - 1) = "T"
        /\ nH > 0 /\ At(cs, pM - 1) = ":"
        /\ nM > 0 /\ At(cs, pS - 1) = ":"
        /\ nS > 0
        /\ pS + nS = Len(cs) + 1
        /\ yr >= 1
        /\ dy <= DaysInMonth(yr, mo)
        /\ sec <= 59

TimeSuffix == <<"T", "0", "0", ":", "0", "0", ":", "0", "0">>

\* The helper without the strptime call of line 28.
convert_to_utc_str_helper_unchecked(date) ==
    IF date.type = "datetime" THEN Returned(Str(Strftime(date)))
    ELSE IF date.type = "str" THEN Returned(date)
    ELSE Raised("TypeError")

convert_to_utc_str_helper(date) ==
    IF date.type = "datetime" THEN Returned(Str(Strftime(date)))
    ELSE IF date.type = "str"
         THEN IF Strptime(date.chars \o TimeSuffix)
              THEN Returned(date)
              ELSE Raised("ValueError")
    ELSE Raised("TypeError")

-----------------------------------------------------------------------------
(* Dictionaries are functions; d[k] = v is Put.                            *)

EmptyDict == [k \in {} |-> None]

Put(d, k, v) == [x \in (DOMAIN d) \cup {k} |-> IF x = k THEN v ELSE d[x]]

-----------------------------------------------------------------------------
(* The decorator: func_wrapper converts the arguments, then calls func.    *)

\* A comprehension step: the element's conversion h, then the rest t; the
\* first exception ends the comprehension.
Then(h, t) ==
    IF ~h.ok THEN h
    ELSE IF ~t.ok THEN t
    ELSE Returned(<<h.val>> \o t.val)

RECURSIVE ConvertArgs(_)
\* new_args: the helper applied, in order, to every argument that is not
\* None.
ConvertArgs(args) ==
    IF args = <<>> THEN Returned(<<>>)
    ELSE IF Head(args) = None THEN ConvertArgs(Tail(args))
    ELSE Then(convert_to_utc_str_helper(Head(args)),
              ConvertArgs(Tail(args)))

\* The converted value h of a keyword argument k, as an item of new_kwargs.
KeyOf(k, h) ==
    IF ~h.ok THEN h ELSE Returned([key |-> k, val |-> h.val])

RECURSIVE ConvertKwargs(_)
\* new_kwargs: the same for the keyword arguments, in call order.
ConvertKwargs(kwargs) ==
    IF kwargs = <<>> THEN Returned(<<>>)
    ELSE IF Head(kwargs).val = None THEN ConvertKwargs(Tail(kwargs))
    ELSE Then(KeyOf(Head(kwargs).key,
                    convert_to_utc_str_helper(Head(kwargs).val)),
              ConvertKwargs(Tail(kwargs)))

Index(names, k) == CHOOSE i \in 1..Len(names) : names[i] = k

\* Python's binding of func(self, *new_args, **new_kwargs) to the
\* parameters `names`, of which the first `required` have no default and
\* the others default to None.
Bind(names, required, new_args, new_kwargs) ==
    LET keys == {new_kwargs[j].key : j \in 1..Len(new_kwargs)}
        kw(k) == new_kwargs[CHOOSE j \in 1..Len(new_kwargs) :
                                new_kwargs[j].key = k].val
        bad == \/ Len(new_args) > Len(names)
               \/ \E k \in keys : ~(\E i \in 1..Len(names) : names[i] = k)
               \/ \E i \in 1..Len(names) :
                      i <= Len(new_args) /\ names[i] \in keys
               \/ \E i \in 1..required :
                      i > Len(new_args) /\ names[i] \notin keys
    IN  IF bad THEN Raised("TypeError")
        ELSE Returned([n \in {names[i] : i \in 1..Len(names)} |->
                 IF Index(names, n) <= Len(new_args)
                 THEN new_args[Index(names, n)]
                 ELSE IF n \in keys THEN kw(n) ELSE None])

\* res = func(self, *new_args, **new_kwargs), once both comprehensions
\* (a, then k) have run.
CallFunc(names, required, a, k) ==
    IF ~a.ok THEN a
    ELSE IF ~k.ok THEN k
    ELSE Bind(names, required, a.val, k.val)

func_wrapper(names, required, args, kwargs) ==
    CallFunc(names, required, ConvertArgs(args), ConvertKwargs(kwargs))

-----------------------------------------------------------------------------
(* The builder methods and get(), as functions of self.query.              *)

accepted == <<Text("csv"), Text("geojson"), Text("kml"), Text("quakeml"),
              Text("text"), Text("xml")>>

\* response_format with the membership test ahead of the type test.
response_format_unordered(q, fmt) ==
    IF ~(\E i \in 1..Len(accepted) : accepted[i] = fmt)
    THEN [query |-> q, exc |-> "ValueError"]
    ELSE IF fmt.type # "str" THEN [query |-> q, exc |-> "TypeError"]
    ELSE [query |-> Put(q, "format", fmt), exc |-> "none"]

response_format(q, fmt) ==
    IF fmt.type # "str" THEN [query |-> q, exc |-> "TypeError"]
    ELSE IF ~(\E i \in 1..Len(accepted) : accepted[i] = fmt)
         THEN [query |-> q, exc |-> "ValueError"]
    ELSE [query |-> Put(q, "format", fmt), exc |-> "none"]

OccurParams == <<"start", "end">>

\* The body without the test of line 155.
occur_between_body_always_end(q, start, end) ==
    Put(Put(q, "starttime", start), "endtime", end)

\* The body of occur_between, given its bound parameters.
occur_between_body(q, start, end) ==
    LET q1 == Put(q, "starttime", start)
    IN  IF end # None THEN Put(q1, "endtime", end) ELSE q1

\* The call of occur_between given the wrapper's outcome b: the exception
\* it raised, or the parameters it bound.
OccurBetweenWith(q, b) ==
    IF ~b.ok THEN [query |-> q, exc |-> b.exc]
    ELSE [query |-> occur_between_body(q, b.val["start"], b.val["end"]),
          exc |-> "none"]

\* occur_between converting its arguments one at a time as it stores them.
occur_between_partial(q, args, kwargs) ==
    IF /\ args # <<>>
       /\ Head(args) # None
       /\ convert_to_utc_str_helper(Head(args)).ok
       /\ ~func_wrapper(OccurParams, 1, args, kwargs).ok
    THEN [query |-> Put(q, "starttime",
                        convert_to_utc_str_helper(Head(args)).val),
          exc |-> func_wrapper(OccurParams, 1, args, kwargs).exc]
    ELSE OccurBetweenWith(q, func_wrapper(OccurParams, 1, args, kwargs))

\* The decorated method: the wrapper, then the body.
occur_between(q, args, kwargs) ==
    OccurBetweenWith(q, func_wrapper(OccurParams, 1, args, kwargs))

UpdatedParams == <<"updated_after">>

UpdatedAfterWith(q, b) ==
    IF ~b.ok THEN [query |-> q, exc |-> b.exc]
    ELSE [query |-> Put(q, "updatedafter", b.val["updated_after"]),
          exc |-> "none"]

updated_after(q, args, kwargs) ==
    UpdatedAfterWith(q, func_wrapper(UpdatedParams, 1, args, kwargs))

\* get() setting the format only when none was chosen.
get_keep_format(q) ==
    IF "format" \in DOMAIN q THEN q ELSE Put(q, "format", Text("geojson"))

\* get(): self.query after line 178, which is also params= of the request.
get(q) == Put(q, "format", Text("geojson"))

-----------------------------------------------------------------------------
(* parse_endpoint_xml_params.  The document is the sequence of attribute   *)
(* dictionaries the two nested iterations visit: every param element,      *)
(* followed by its descendants, in document order.                         *)

MaxNodes == 4

Unbound == [bound |-> FALSE]

BoundTo(n) == [bound |-> TRUE, name |-> n]

\* One pass of the inner loop body (lines 70-90) over the attributes a,
\* with `data` and the local `name` as they stand.
ParseNode(data, name, a) ==
    IF "name" \in DOMAIN a
    THEN LET n == a["name"].text
             xml_dtype == IF "type" \in DOMAIN a THEN a["type"]
                          ELSE Text("xs:string")
             default == IF "default" \in DOMAIN a THEN a["default"]
                        ELSE None
         IN  [exc |-> "none", name |-> BoundTo(n),
              data |-> Put(data, n, [dtype |-> xml_dtype,
                                     default |-> default])]
    ELSE IF "value" \notin DOMAIN a
         THEN [exc |-> "KeyError", name |-> name, data |-> data]
    ELSE IF ~name.bound
         THEN [exc |-> "UnboundLocalError", name |-> name, data |-> data]
    ELSE LET n == name.name
             v == a["value"]
         IN  IF "value" \in DOMAIN data[n]
             THEN IF "values" \in DOMAIN data[n]
                  THEN [exc |-> "none", name |-> name,
                        data |-> Put(data, n,
                            Put(data[n], "values",
                                Append(data[n]["values"], v)))]
                  ELSE [exc |-> "KeyError", name |-> name, data |-> data]
             ELSE [exc |-> "none", name |-> name,
                   data |-> Put(data, n, Put(data[n], "values", <<v>>))]

RECURSIVE ParseFrom(_, _, _, _)
ParseFrom(nodes, i, data, name) ==
    IF i > Len(nodes) THEN [exc |-> "none", data |-> data]
    ELSE LET r == ParseNode(data, name, nodes[i])
         IN  IF r.exc # "none" THEN [exc |-> r.exc, data |-> data]
             ELSE ParseFrom(nodes, i + 1, r.data, r.name)

\* The parser swallowing an exception of the loop and returning the
\* entries built so far.
parse_endpoint_xml_params_lenient(d) ==
    IF ~d.xml THEN [exc |-> "ParseError", data |-> EmptyDict]
    ELSE [exc |-> "none",
          data |-> ParseFrom(d.nodes, 1, EmptyDict, Unbound).data]

\* ET.fromstring raises ParseError on text that is not XML.
parse_endpoint_xml_params(d) ==
    IF ~d.xml THEN [exc |-> "ParseError", data |-> EmptyDict]
    ELSE ParseFrom(d.nodes, 1, EmptyDict, Unbound)

-----------------------------------------------------------------------------
(* Inputs.                                                                 *)

Header(n) == [name |-> Text(n)]

TypedHeader(n, t, d) == [name |-> Text(n), type |-> Text(t),
                         default |-> Text(d)]

ValueNode(v) == [value |-> Text(v)]

BareNode == [id |-> Text("x")]

Nodes == {Header("minmagnitude"), Header("format"),
          TypedHeader("minmagnitude", "xs:double", "5"),
          ValueNode("1"), ValueNode("2"), BareNode}

SeqsUpTo(S, n) == UNION {[1..k -> S] : k \in 0..n}

Docs == {[xml |-> TRUE, nodes |-> ns] : ns \in SeqsUpTo(Nodes, MaxNodes)}
          \cup {[xml |-> FALSE, nodes |-> <<>>]}

\* The documents a client of the builder model is constructed from.
ClientDocs == {[xml |-> TRUE,
                nodes |-> <<Header("minmagnitude"), ValueNode("1"),
                            ValueNode("2")>>],
               [xml |-> TRUE, nodes |-> <<ValueNode("1")>>]}

Date1 == Datetime(2021, 11, 12, 0, 0, 0)

Chars_2021_11_13 == <<"2", "0", "2", "1", "-", "1", "1", "-", "1", "3">>

Chars_2021_13_01 == <<"2", "0", "2", "1", "-", "1", "3", "-", "0", "1">>

DateInputs == {Date1, Str(Chars_2021_11_13), Str(Chars_2021_13_01),
               PyInt(42), None}

KwInputs == {Str(Chars_2021_11_13), Str(Chars_2021_13_01), None}

FewInputs == {Str(Chars_2021_11_13), None}

KwPair(k, v) == [key |-> k, val |-> v]

Call(a, k) == [args |-> a, kwargs |-> k]

\* Calls of occur_between: positional only (up to one argument too many),
\* keyword only, and one positional with one keyword.
OccurCalls ==
    {Call(a, <<>>) : a \in SeqsUpTo(DateInputs, 2)}
      \cup {Call(a, <<>>) : a \in [1..3 -> FewInputs]}
      \cup {Call(<<>>, <<KwPair(k, v)>>) :
                k \in {"start", "end"}, v \in KwInputs}
      \cup {Call(<<>>, <<KwPair(k[1], v), KwPair(k[2], w)>>) :
                k \in {<<"start", "end">>, <<"end", "start">>},
                v \in KwInputs, w \in KwInputs}
      \cup {Call(<<a>>, <<KwPair(k, v)>>) :
                a \in FewInputs, k \in {"start", "end"}, v \in KwInputs}

UpdatedCalls ==
    {Call(a, <<>>) : a \in SeqsUpTo(DateInputs, 1)}
      \cup {Call(a, <<>>) : a \in [1..2 -> FewInputs]}
      \cup {Call(<<>>, <<KwPair("updated_after", v)>>) : v \in KwInputs}

Date2 == Datetime(2020, 2, 29, 23, 59, 7)

YearStrs == {<<"2", "0", "2", "1">>, <<"2", "0", "2", "0">>,
             <<"0", "0", "0", "0">>, <<"2", "1">>}

MonthStrs == {<<"1", "1">>, <<"1", "3">>, <<"1">>, <<"0", "2">>,
              <<"0", "0">>}

DayStrs == {<<"1", "3">>, <<"3">>, <<"3", "0">>, <<"2", "9">>,
            <<"3", "1">>, <<"0", "0">>, <<" ", "3">>}

SepStrs == {<<"-">>, <<"/">>}

TailStrs == {<<>>, TimeSuffix, <<"x">>}

\* The values the normaliser is tried on.
NormInputs ==
    {Str(y \o sp \o m \o sp \o d \o t) :
         y \in YearStrs, sp \in SepStrs, m \in MonthStrs, d \in DayStrs,
         t \in TailStrs}
      \cup {Str(<<>>), Date1, Date2, PyInt(42), None, [type |-> "list"]}

FmtInputs == {Text("csv"), Text("geojson"), Text("pdf"), Text(""),
              PyInt(42)}

-----------------------------------------------------------------------------
(* The client.                                                             *)

NoRegistry == [k \in {} |-> None]

NoCall == [op |-> "none", args |-> <<>>, kwargs |-> <<>>, exc |-> "none",
           ret |-> "none", sent |-> FALSE, params |-> EmptyDict]

\* What a call hands back: the builders return self, get() the response.
Ret(exc, v) == IF exc = "none" THEN v ELSE "none"

Blank ==
    /\ phase = "new"
    /\ _params = NoRegistry
    /\ ctorError = "none"
    /\ query = EmptyDict
    /\ last = NoCall
    /\ occurEnd = "never"

NormIdle ==
    /\ value = None
    /\ normOut = Raised("none")
    /\ normAgain = Raised("none")

Init == doc \in ClientDocs /\ Blank /\ NormIdle

\* QuakeQuery(): the schema is fetched (which may fail) and parsed; only
\* then is self.query set.
Construct ==
    /\ phase = "new"
    /\ \E net \in {"ok", "ConnectionError"} :
         LET r == parse_endpoint_xml_params(doc)
         IN  IF net # "ok"
             THEN /\ phase' = "failed"
                  /\ ctorError' = net
                  /\ _params' = NoRegistry
             ELSE IF r.exc # "none"
             THEN /\ phase' = "failed"
                  /\ ctorError' = r.exc
                  /\ _params' = NoRegistry
             ELSE /\ phase' = "ready"
                  /\ ctorError' = "none"
                  /\ _params' = r.data
    /\ query' = EmptyDict
    /\ UNCHANGED <<doc, last, occurEnd, value, normOut, normAgain>>

\* The value the caller put in the i-th parameter's position.
CallerArg(names, c, i) ==
    IF Len(c.args) >= i THEN c.args[i]
    ELSE IF \E j \in 1..Len(c.kwargs) : c.kwargs[j].key = names[i]
         THEN c.kwargs[CHOOSE j \in 1..Len(c.kwargs) :
                           c.kwargs[j].key = names[i]].val
    ELSE None

ResponseFormat ==
    /\ phase = "ready"
    /\ \E fmt \in FmtInputs :
         \E r \in {response_format(query, fmt)} :
             /\ query' = r.query
             /\ last' = [op |-> "response_format", args |-> <<fmt>>,
                         kwargs |-> <<>>, exc |-> r.exc,
                         ret |-> Ret(r.exc, "self"), sent |-> FALSE,
                         params |-> EmptyDict]
    /\ UNCHANGED <<doc, phase, _params, ctorError, occurEnd,
                   value, normOut, normAgain>>

OccurBetween ==
    /\ phase = "ready"
    /\ \E c \in OccurCalls :
         \E r \in {occur_between(query, c.args, c.kwargs)} :
             /\ query' = r.query
             /\ last' = [op |-> "occur_between", args |-> c.args,
                         kwargs |-> c.kwargs, exc |-> r.exc,
                         ret |-> Ret(r.exc, "self"), sent |-> FALSE,
                         params |-> EmptyDict]
             /\ occurEnd' = IF r.exc # "none" THEN occurEnd
                            ELSE IF CallerArg(OccurParams, c, 2) = None
                                 THEN "absent"
                            ELSE "present"
    /\ UNCHANGED <<doc, phase, _params, ctorError,
                   value, normOut, normAgain>>

UpdatedAfter ==
    /\ phase = "ready"
    /\ \E c \in UpdatedCalls :
         \E r \in {updated_after(query, c.args, c.kwargs)} :
             /\ query' = r.query
             /\ last' = [op |-> "updated_after", args |-> c.args,
                         kwargs |-> c.kwargs, exc |-> r.exc,
                         ret |-> Ret(r.exc, "self"), sent |-> FALSE,
                         params |-> EmptyDict]
    /\ UNCHANGED <<doc, phase, _params, ctorError, occurEnd,
                   value, normOut, normAgain>>

\* get(): the format is forced, the request goes out with self.query as
\* its parameters, and the transport returns a response or raises.
Get ==
    /\ phase = "ready"
    /\ \E net \in {"none", "ConnectionError"} :
         /\ query' = get(query)
         /\ last' = [op |-> "get", args |-> <<>>, kwargs |-> <<>>,
                     exc |-> net, ret |-> Ret(net, "response"),
                     sent |-> TRUE, params |-> query']
    /\ UNCHANGED <<doc, phase, _params, ctorError, occurEnd,
                   value, normOut, normAgain>>

Next == Construct \/ ResponseFormat \/ OccurBetween \/ UpdatedAfter \/ Get

Spec == Init /\ [][Next]_vars

\* The parser on every document within the bound.
InitParse == doc \in Docs /\ Blank /\ NormIdle

NextParse == Construct

SpecParse == InitParse /\ [][NextParse]_vars

-----------------------------------------------------------------------------
(* The normaliser on its own: a value is normalised, and the result        *)
(* normalised once more.                                                   *)

Pending == Raised("none")

InitNorm ==
    /\ doc \in {d \in ClientDocs : Len(d.nodes) > 1}
    /\ Blank
    /\ value \in NormInputs
    /\ normOut = Pending
    /\ normAgain = Pending

Normalize ==
    /\ normOut = Pending
    /\ normOut' = convert_to_utc_str_helper(value)
    /\ UNCHANGED <<doc, phase, _params, ctorError, query, last, occurEnd,
                   value, normAgain>>

Renormalize ==
    /\ normOut.ok
    /\ normAgain = Pending
    /\ normAgain' = convert_to_utc_str_helper(normOut.val)
    /\ UNCHANGED <<doc, phase, _params, ctorError, query, last, occurEnd,
                   value, normOut>>

NextNorm == Normalize \/ Renormalize

SpecNorm == InitNorm /\ [][NextNorm]_vars

-----------------------------------------------------------------------------
(* Properties.                                                             *)

IsHeader(a) == "name" \in DOMAIN a

IsValue(a) == "name" \notin DOMAIN a /\ "value" \in DOMAIN a

\* A sequence of headers and values that starts with a header.
WellFormed(d) ==
    /\ d.xml
    /\ Len(d.nodes) >= 1
    /\ IsHeader(d.nodes[1])
    /\ \A i \in 1..Len(d.nodes) : IsHeader(d.nodes[i]) \/ IsValue(d.nodes[i])

\* The values between the header at i and the next header.
ValuesAfter(nodes, i) ==
    LET later == {j \in (i + 1)..Len(nodes) : IsHeader(nodes[j])}
        stop == IF later = {} THEN Len(nodes) + 1
                ELSE CHOOSE j \in later : \A k \in later : j <= k
    IN  [k \in 1..(stop - i - 1) |-> nodes[i + k]["value"]]

LastDeclaration(nodes, i) ==
    \A j \in (i + 1)..Len(nodes) :
        IsHeader(nodes[j]) => nodes[j]["name"] # nodes[i]["name"]

AllowedValues(e) == IF "values" \in DOMAIN e THEN e["values"] ELSE <<>>

\* C1: for a well-formed document, each parameter's allowed values are all
\* the values between its header and the next header, in order, its dtype
\* is the declared type or xs:string, and its default the declared default
\* or None.
C1_AllValuesCollected ==
    (phase = "ready" /\ WellFormed(doc)) =>
        \A i \in 1..Len(doc.nodes) :
            (IsHeader(doc.nodes[i]) /\ LastDeclaration(doc.nodes, i)) =>
                LET a == doc.nodes[i]
                    e == _params[a["name"].text]
                IN  /\ e["dtype"] = (IF "type" \in DOMAIN a THEN a["type"]
                                     ELSE Text("xs:string"))
                    /\ e["default"] = (IF "default" \in DOMAIN a
                                       THEN a["default"] ELSE None)
                    /\ AllowedValues(e) = ValuesAfter(doc.nodes, i)

Geojson == Text("geojson")

Builders == {"response_format", "occur_between", "updated_after"}

\* C3: a builder call that raises leaves self.query as it was and issues no
\* request.
C3_FailedCallChangesNothing ==
    [][(last'.op \in Builders /\ last'.exc # "none") =>
          (query' = query /\ ~last'.sent /\ last'.ret = "none")]_vars

C3_Witness ==
    /\ last.op = "occur_between"
    /\ last.exc = "ValueError"
    /\ last.args = <<Str(Chars_2021_11_13), Str(Chars_2021_13_01)>>
    /\ "starttime" \notin DOMAIN query

BuilderKeys == {"starttime", "endtime", "updatedafter", "format"}

DateKeys == {"starttime", "endtime", "updatedafter"}

AcceptedFormats == {Text("csv"), Text("geojson"), Text("kml"),
                    Text("quakeml"), Text("text"), Text("xml")}

\* A stored date is a string: either one strptime accepts with the midnight
\* suffix, or the rendering of a datetime.
ValidatedDate(v) ==
    /\ v.type = "str"
    /\ "chars" \in DOMAIN v
    /\ \/ Strptime(v.chars \o TimeSuffix)
       \/ \E d \in {Date1, Date2} : v.chars = Strftime(d)

Validated(q) ==
    /\ DOMAIN q \subseteq BuilderKeys \cup DOMAIN _params
    /\ \A k \in DOMAIN q \cap DateKeys : ValidatedDate(q[k])
    /\ "format" \in DOMAIN q => q["format"] \in AcceptedFormats

\* C4: self.query only ever holds the four builder keys (or registry
\* names), every value under them passed validation, and get() sends
\* nothing else.
C4_QueryStateValidated ==
    phase = "ready" => (Validated(query) /\ (last.sent => Validated(last.params)))

C4_Witness ==
    /\ last.op = "get"
    /\ DOMAIN last.params = BuilderKeys
    /\ DOMAIN query = BuilderKeys

Norm(v) == convert_to_utc_str_helper(v).val

CallOf(l) == [args |-> l.args, kwargs |-> l.kwargs]

\* C5: a successful occur_between with a start and no end writes starttime
\* only; with a start and an end it writes starttime and endtime; every
\* other key is left alone and the client is returned.
C5_OccurBetweenFrame ==
    [][LET c == CallOf(last')
           start == CallerArg(OccurParams, c, 1)
           end == CallerArg(OccurParams, c, 2)
       IN  (/\ last'.op = "occur_between"
            /\ last'.exc = "none"
            /\ Len(c.args) + Len(c.kwargs) <= Len(OccurParams)
            /\ start # None) =>
               /\ last'.ret = "self"
               /\ IF end = None
                  THEN query' = Put(query, "starttime", Norm(start))
                  ELSE query' = Put(Put(query, "starttime", Norm(start)),
                                    "endtime", Norm(end))]_vars

C5_Witness ==
    /\ last.op = "occur_between"
    /\ last.exc = "none"
    /\ last.args = <<Date1>>
    /\ last.kwargs = <<>>
    /\ query["starttime"] = Str(Strftime(Date1))
    /\ "endtime" \notin DOMAIN query
    /\ "updatedafter" \in DOMAIN query

\* C6: response_format(fmt) raises TypeError for a fmt that is not a str,
\* ValueError for a str outside the six formats, and otherwise stores fmt
\* under format, touches no other key and returns the client.
C6_ResponseFormat ==
    [][last'.op = "response_format" =>
          LET fmt == last'.args[1]
          IN  IF fmt.type # "str"
              THEN last'.exc = "TypeError" /\ query' = query
              ELSE IF fmt \in AcceptedFormats
              THEN /\ last'.exc = "none"
                   /\ last'.ret = "self"
                   /\ query' = Put(query, "format", fmt)
              ELSE last'.exc = "ValueError" /\ query' = query]_vars

C6_Witness ==
    /\ last.op = "response_format"
    /\ last.args = <<Text("csv")>>
    /\ last.exc = "none"
    /\ query["format"] = Text("csv")
    /\ "starttime" \in DOMAIN query

\* A value node is met before any header: nothing but value nodes precede
\* it.
OrphanValue(d) ==
    /\ d.xml
    /\ Len(d.nodes) >= 1
    /\ IsValue(d.nodes[1])

IsCalendarDate(cs) ==
    /\ Len(cs) = 10
    /\ cs[5] = "-" /\ cs[8] = "-"
    /\ \A i \in {1, 2, 3, 4, 6, 7, 9, 10} : IsDigit(cs[i])
    /\ LET y == ToInt(cs, 1, 4)
           m == ToInt(cs, 6, 2)
           d == ToInt(cs, 9, 2)
       IN  /\ y >= 1
           /\ m >= 1 /\ m <= 12
           /\ d >= 1 /\ d <= DaysInMonth(y, m)

\* C8: the normaliser returns a YYYY-MM-DD calendar date string unchanged
\* (so normalising it again changes nothing), renders a datetime as
\* YYYY-MM-DDTHH:MM:SS, raises ValueError for any other string and
\* TypeError for any other type.
C8_Normalizer ==
    /\ normOut # Pending =>
          IF value.type = "str"
          THEN IF IsCalendarDate(value.chars)
               THEN normOut = Returned(value)
               ELSE normOut = Raised("ValueError")
          ELSE IF value.type = "datetime"
          THEN normOut = Returned(Str(Strftime(value)))
          ELSE normOut = Raised("TypeError")
    /\ (normAgain # Pending /\ value.type = "str") => normAgain = normOut

\* C9: when the latest successful occur_between had no end, self.query has
\* no endtime and get() sends none.
C9_NoStaleEndtime ==
    occurEnd = "absent" =>
        /\ "endtime" \notin DOMAIN query
        /\ last.sent => "endtime" \notin DOMAIN last.params

\* C10: after a successful occur_between, starttime is the normalised value
\* of the start position and an endtime written by the call is the
\* normalised value of the end position, None arguments included.
C10_ArgumentsKeepPosition ==
    [][LET c == CallOf(last')
           start == CallerArg(OccurParams, c, 1)
           end == CallerArg(OccurParams, c, 2)
       IN  (last'.op = "occur_between" /\ last'.exc = "none") =>
               /\ start # None
               /\ query'["starttime"] = Norm(start)
               /\ ("endtime" \in DOMAIN query' /\ end # None) =>
                      query'["endtime"] = Norm(end)]_vars

====
